---- MODULE Spec2Model ----
(***************************************************************************)
(* Model of the rate-limiting and account-session core of kwork-service:   *)
(*   app/core/rate_limiter.py    RateLimiter, AccountRateLimiter           *)
(*   app/services/kwork_client.py KworkClient, KworkClientManager          *)
(*   app/services/kwork_playwright_auth.py authenticate_kwork_account      *)
(*   app/api/v1/accounts.py      switch_account, delete_account,           *)
(*                               get_rate_limits, test_connection          *)
(*   main.py                     the two HTTP middlewares                  *)
(*   app/api/v1/chat.py, orders.py, crm_sync.py  the handlers' answers     *)
(*                                                                         *)
(* Time.  time.time() is the integer variable `now` (seconds); it moves    *)
(* only in Tick.  The service is an asyncio program: a coroutine runs      *)
(* without interruption until an await that really suspends.  Acquiring a  *)
(* free asyncio.Lock does not suspend and the bodies of the RateLimiter    *)
(* methods contain no other await, so no lock is ever held while another   *)
(* coroutine runs: each RateLimiter method is one action, and the lock     *)
(* shows only as the entry the defaultdict creates in `locks`.             *)
(***************************************************************************)
EXTENDS Integers, Sequences, FiniteSets, TLC

(* ------------------------------ bounds -------------------------------- *)
MaxRequests == 2
MaxWindow == 2
MaxTicks == 2
MaxOps == 2
StartTime == 40

(* ------------------------- program constants -------------------------- *)
DefaultMaxAge == 3600

Ids == {"A", "B"}
Tiers == {"general", "message", "response", "gig_edit", "auth"}
Limiters == Tiers \cup {"rl"}
Procs == {"p1", "p2"}

VARIABLES
    now,            \* time.time()
    ticks,          \* number of Tick steps taken (bounded by MaxTicks)
    max_requests,   \* RateLimiter.max_requests, per limiter
    time_window,    \* RateLimiter.time_window, per limiter
    buckets,        \* RateLimiter.buckets: per limiter, identifier -> deque
    locks,          \* RateLimiter.locks: per limiter, the identifiers with a lock
    pc,             \* per task: "idle", "pending" (call scheduled), "done"
    call,           \* per task: the allow_request call it makes and its result
    admitted,       \* history: admission timestamps still in [now - W, now]
    scen,           \* history: the run of calls since the bucket was last empty
    last,           \* history: the last AccountRateLimiter operation and its result
    ops,            \* number of operations started (bounded by MaxOps, MaxClientOps)
    clients,        \* KworkClientManager.clients: the accounts that have a client
    active_account, \* KworkClientManager.active_account ("none": None)
    is_active,      \* kwork_accounts.is_active, per account row
    is_authenticated,   \* KworkClient.is_authenticated, per account
    session_cookies,    \* KworkClient.session_cookies, per account: name -> value
    last_request_time,  \* KworkClient.last_request_time, per account
    cookie_file,    \* KworkPlaywrightAuth.cookies_path, per account: NoFile or expires_at
    task,           \* per task: the client operation it runs and where it is suspended
    logins,         \* history: times of the login invocations still in [now - W, now]
    oplog,          \* history: the operations started, with the limiter's verdict
    authenticated_at \* history: when the account's last authentication succeeded

rlvars == <<now, ticks, max_requests, time_window, buckets, locks, pc, call,
            admitted, scen, last, ops>>
mgrvars == <<clients, active_account, is_active>>
clvars == <<is_authenticated, session_cookies, last_request_time, cookie_file,
            task, logins, oplog, authenticated_at>>
vars == <<rlvars, mgrvars, clvars>>

(* ------------------------------ helpers ------------------------------- *)
Min(a, b) == IF a < b THEN a ELSE b
Max(a, b) == IF a > b THEN a ELSE b

\* defaultdict(deque).__getitem__: the deque of an identifier, empty when absent
Get(b, id) == IF id \in DOMAIN b THEN b[id] ELSE << >>
\* the mapping with the deque of id set to q (created when absent)
Put(b, id, q) == [i \in DOMAIN b \cup {id} |-> IF i = id THEN q ELSE b[i]]
\* del mapping[id] for every id in S
Drop(b, S) == [i \in DOMAIN b \ S |-> b[i]]

CountIn(q, lo) == Cardinality({i \in 1..Len(q) : q[i] > lo})

(* ------------------------- RateLimiter (pure) ------------------------- *)
RECURSIVE EvictLe(_, _)
EvictLe(q, limit) ==
    IF q # << >> /\ Head(q) <= limit THEN EvictLe(Tail(q), limit) ELSE q

RECURSIVE EvictLt(_, _)
EvictLt(q, limit) ==
    IF q # << >> /\ Head(q) < limit THEN EvictLt(Tail(q), limit) ELSE q

\* mutant: events exactly time_window old are kept
EvictStrict(q, t, w) == EvictLt(q, t - w)

\* while bucket and bucket[0] <= current_time - self.time_window: popleft()
Evict(q, t, w) == EvictLe(q, t - w)

\* mutant: the limit test is off by one
HasRoomOffByOne(q, n) == Len(q) <= n

\* if len(bucket) >= self.max_requests: return False
HasRoom(q, n) == Len(q) < n

\* mutant: the admitted event is appended to a copy and lost
AllowLostAppend(bs, l, id) ==
    LET q == Evict(Get(bs[l], id), now, time_window[l])
    IN  [ok |-> HasRoom(q, max_requests[l]), seen |-> q,
         buckets |-> [bs EXCEPT ![l] = Put(@, id, q)]]

\* mutant: every identifier shares the bucket of "A"
AllowSharedKey(bs, l, id) ==
    LET q == Evict(Get(bs[l], "A"), now, time_window[l])
        ok == HasRoom(q, max_requests[l])
    IN  [ok |-> ok, seen |-> q,
         buckets |-> [bs EXCEPT ![l] = Put(@, "A", IF ok THEN Append(q, now) ELSE q)]]

\* mutant: a denied call is recorded too
AllowRecordsDenied(bs, l, id) ==
    LET q == Evict(Get(bs[l], id), now, time_window[l])
    IN  [ok |-> HasRoom(q, max_requests[l]), seen |-> q,
         buckets |-> [bs EXCEPT ![l] = Put(@, id, Append(q, now))]]

\* allow_request on the buckets bs of all limiters: the result and the buckets after
Allow(bs, l, id) ==
    LET q == Evict(Get(bs[l], id), now, time_window[l])
        ok == HasRoom(q, max_requests[l])
    IN  [ok |-> ok,
         seen |-> q,
         buckets |-> [bs EXCEPT ![l] = Put(@, id, IF ok THEN Append(q, now) ELSE q)]]

\* get_remaining_requests: max(0, max_requests - len(bucket)) after the eviction
Remaining(bs, l, id) ==
    Max(0, max_requests[l] - Len(Evict(Get(bs[l], id), now, time_window[l])))

\* cleanup_old_buckets: the identifiers whose newest event is max_age old
ToRemove(bs, l, max_age) ==
    {id \in DOMAIN bs[l] : bs[l][id] # << >> /\ bs[l][id][Len(bs[l][id])] <= now - max_age}

(* --------------------------- history state ---------------------------- *)
NoCall == [l |-> "rl", id |-> "A", slots |-> 0, stale |-> FALSE, res |-> FALSE]
NoScen == [on |-> FALSE, t0 |-> 0, idx |-> 0, chk |-> "none", res |-> FALSE,
           denied |-> FALSE]
\* res: the boolean the operation returned; val: the number it returned (0 when
\* it returns none: allow_request and reset_bucket return no number)
NoLast == [op |-> "none", l |-> "rl", id |-> "A", res |-> FALSE, val |-> 0]

\* cookie_file: the cookie file of the account's login does not exist
NoFile == -1

\* authenticated_at: no authentication of the account has succeeded
Never == -1

\* a task that runs no client operation.  op: the operation; a: the account;
\* at: "idle", "pace" (the sleep of _ensure_rate_limit), "http" (the request is
\* sent), "sleep" (the operation's own delay), "browser" (the Playwright
\* session), "done"; k: the index of the operation's current request; since:
\* when the current sleep started; force: force_new_auth; res: "none", "ok"
\* (success returned), "fail" (failure returned), "raise" (exception raised);
\* reason: why it failed; consulted: the tiers whose allow_* the operation
\* called, in order; advanced: the tiers that admitted it; invoked: it invoked
\* the login (authenticate_kwork_account or the login form POST); before: the
\* account's deque in every tier when the operation was called; sent: when the
\* operation last set last_request_time (Never: it has not); resp: the kind of
\* the last response it received ("": not recorded); updates: the keys of the
\* updates update_gig was called with, once the gig_edit tier admitted it;
\* payload: the keys of the json body it passes to _make_request.
NoTask == [op |-> "none", a |-> "A", at |-> "idle", k |-> 0, since |-> 0,
           force |-> FALSE, res |-> "none", reason |-> "", consulted |-> << >>,
           advanced |-> {}, invoked |-> FALSE, before |-> [t \in Tiers |-> << >>],
           sent |-> Never, resp |-> "", updates |-> {}, payload |-> {}]

\* the run of allow_request calls that starts on an empty bucket: its first call
\* time t0, the index of the last call made less than W after t0, and the
\* result of the last call, made within the run ("within") or as the first
\* call W or more after t0 ("after")
ScenAfterAllow(s, l, seen, ok) ==
    IF s.on /\ now < s.t0 + time_window[l]
    THEN [s EXCEPT !.idx = Min(@ + 1, max_requests[l] + 2), !.chk = "within",
                   !.res = ok, !.denied = @ \/ ~ok]
    ELSE IF s.on
    THEN [on |-> seen = << >>, t0 |-> now, idx |-> 1, chk |-> "after", res |-> ok,
          denied |-> s.denied]
    ELSE IF seen = << >>
    THEN [on |-> TRUE, t0 |-> now, idx |-> 1, chk |-> "within", res |-> ok,
          denied |-> FALSE]
    ELSE NoScen

\* admission timestamps kept while they are in the closed window [t - w, t]
RECURSIVE PruneLt(_, _)
PruneLt(q, limit) ==
    IF q # << >> /\ Head(q) < limit THEN PruneLt(Tail(q), limit) ELSE q

StaleOn(l, ids) ==
    [p \in Procs |-> IF pc[p] # "idle" /\ call[p].l = l /\ call[p].id \in ids
                     THEN [call[p] EXCEPT !.stale = TRUE] ELSE call[p]]

(* ------------------------------- Init --------------------------------- *)
TierMax(l) ==
    CASE l = "general" -> 60
      [] l = "message" -> 10
      [] l = "response" -> 5
      [] l = "gig_edit" -> 2
      [] l = "auth" -> 10

TierWindow(l) ==
    CASE l = "general" -> 60
      [] l = "message" -> 60
      [] l = "response" -> 60
      [] l = "gig_edit" -> 60
      [] l = "auth" -> 3600

\* RateLimiter.__init__ for every limiter, the five tiers as AccountRateLimiter
\* constructs them and the standalone limiter with (n, w)
InitLimiters(n, w) ==
    /\ max_requests = [l \in Limiters |-> IF l = "rl" THEN n ELSE TierMax(l)]
    /\ time_window = [l \in Limiters |-> IF l = "rl" THEN w ELSE TierWindow(l)]
    /\ buckets = [l \in Limiters |-> << >>]
    /\ locks = [l \in Limiters |-> {}]

InitHistory ==
    /\ admitted = [l \in Limiters |-> [id \in Ids |-> << >>]]
    /\ scen = [l \in Limiters |-> [id \in Ids |-> NoScen]]
    /\ last = NoLast

\* KworkClientManager.__init__; KworkClient.__init__ gives every client these fields
InitClient ==
    /\ clients = {}
    /\ active_account = "none"
    /\ is_active = [a \in Ids |-> TRUE]
    /\ is_authenticated = [a \in Ids |-> FALSE]
    /\ session_cookies = [a \in Ids |-> << >>]
    /\ last_request_time = [a \in Ids |-> 0]
    /\ cookie_file = [a \in Ids |-> NoFile]
    /\ task = [p \in Procs |-> NoTask]
    /\ logins = [a \in Ids |-> << >>]
    /\ oplog = << >>
    /\ authenticated_at = [a \in Ids |-> Never]

InitRL ==
    /\ InitClient
    /\ now = StartTime
    /\ ticks = 0
    /\ \E n \in 1..MaxRequests, w \in 1..MaxWindow : InitLimiters(n, w)
    /\ pc = [p \in Procs |-> "idle"]
    /\ call = [p \in Procs |-> NoCall]
    /\ InitHistory
    /\ ops = 0

(* --------------------------- RateLimiter steps ------------------------ *)
\* RateLimiter.allow_request, lock taken and released inside
AllowRequest(l, id) ==
    LET r == Allow(buckets, l, id) IN
    /\ buckets' = r.buckets
    /\ locks' = [locks EXCEPT ![l] = @ \cup {id}]
    /\ admitted' = IF r.ok THEN [admitted EXCEPT ![l][id] = Append(@, now)] ELSE admitted
    /\ scen' = [scen EXCEPT ![l][id] = ScenAfterAllow(@, l, r.seen, r.ok)]
    /\ UNCHANGED <<now, ticks, max_requests, time_window>>

\* RateLimiter.get_remaining_requests
GetRemaining(l, id) ==
    /\ buckets' = [buckets EXCEPT ![l] = Put(@, id, Evict(Get(@, id), now, time_window[l]))]
    /\ locks' = [locks EXCEPT ![l] = @ \cup {id}]
    /\ UNCHANGED <<now, ticks, max_requests, time_window, pc, call, admitted, scen>>

\* RateLimiter.reset_bucket.  A reset starts the histories of the identifier anew.
ResetBucket(l, id) ==
    /\ buckets' = [buckets EXCEPT ![l] = Put(@, id, << >>)]
    /\ locks' = [locks EXCEPT ![l] = @ \cup {id}]
    /\ admitted' = [admitted EXCEPT ![l][id] = << >>]
    /\ scen' = [scen EXCEPT ![l][id] = NoScen]
    /\ call' = StaleOn(l, {id})
    /\ UNCHANGED <<now, ticks, max_requests, time_window, pc>>

\* RateLimiter.cleanup_old_buckets(max_age)
CleanupOldBuckets(l, max_age) ==
    LET gone == ToRemove(buckets, l, max_age) IN
    /\ buckets' = [buckets EXCEPT ![l] = Drop(@, gone)]
    /\ locks' = [locks EXCEPT ![l] = @ \ gone]
    /\ scen' = [scen EXCEPT ![l] = [id \in Ids |-> IF id \in gone THEN NoScen ELSE @[id]]]
    /\ call' = StaleOn(l, gone)
    /\ UNCHANGED <<now, ticks, max_requests, time_window, pc, admitted>>

\* the clock advances by d seconds
Tick(d) ==
    /\ ticks < MaxTicks
    /\ ticks' = ticks + 1
    /\ now' = now + d
    /\ admitted' = [l \in Limiters |-> [id \in Ids |->
                        PruneLt(admitted[l][id], now' - time_window[l])]]
    /\ call' = [p \in Procs |-> IF pc[p] # "idle" THEN [call[p] EXCEPT !.stale = TRUE]
                                ELSE call[p]]
    /\ logins' = [a \in Ids |-> PruneLt(logins[a], now' - TierWindow("auth"))]
    /\ UNCHANGED <<max_requests, time_window, buckets, locks, pc, scen, last, ops>>
    /\ UNCHANGED <<mgrvars, is_authenticated, session_cookies, authenticated_at, last_request_time,
                   cookie_file, task, oplog>>

(* ---- SpecRL: one RateLimiter(n, w), its methods called one at a time ---- *)
RLAllow(id) ==
    AllowRequest("rl", id) /\ UNCHANGED <<pc, call, last, ops, mgrvars, clvars>>
RLGetRemaining(id) ==
    GetRemaining("rl", id) /\ UNCHANGED <<last, ops, mgrvars, clvars>>
RLResetBucket(id) ==
    ResetBucket("rl", id) /\ UNCHANGED <<last, ops, mgrvars, clvars>>
RLCleanup ==
    CleanupOldBuckets("rl", DefaultMaxAge) /\ UNCHANGED <<last, ops, mgrvars, clvars>>

NextRL ==
    \/ \E id \in Ids : RLAllow(id)
    \/ \E id \in Ids : RLGetRemaining(id)
    \/ \E id \in Ids : RLResetBucket(id)
    \/ RLCleanup
    \/ \E d \in {1, time_window["rl"], DefaultMaxAge} : Tick(d)

SpecRL == InitRL /\ [][NextRL]_vars

(* ---- SpecRace: two tasks call allow_request("A") of one RateLimiter(n, w) ---- *)
\* a task schedules allow_request("A") (asyncio.create_task / gather)
CallAllow(p) ==
    /\ pc[p] \in {"idle", "done"}
    /\ pc' = [pc EXCEPT ![p] = "pending"]
    /\ call' = [call EXCEPT ![p] = [l |-> "rl", id |-> "A",
                                    slots |-> Remaining(buckets, "rl", "A"),
                                    stale |-> FALSE, res |-> FALSE]]
    /\ UNCHANGED <<now, ticks, max_requests, time_window, buckets, locks,
                   admitted, scen, last, ops, mgrvars, clvars>>

\* the event loop runs the scheduled call: the whole body of allow_request
RunAllow(p) ==
    /\ pc[p] = "pending"
    /\ AllowRequest(call[p].l, call[p].id)
    /\ pc' = [pc EXCEPT ![p] = "done"]
    /\ call' = [call EXCEPT ![p].res = Allow(buckets, call[p].l, call[p].id).ok]
    /\ UNCHANGED <<last, ops, mgrvars, clvars>>

NextRace ==
    \/ \E p \in Procs : CallAllow(p)
    \/ \E p \in Procs : RunAllow(p)
    \/ RLResetBucket("A")
    \/ \E d \in {1, time_window["rl"]} : Tick(d)

SpecRace == InitRL /\ [][NextRace]_vars

(* ---- SpecTiers: the AccountRateLimiter, its methods called one at a time ---- *)
\* k events with timestamp t
RECURSIVE Fill(_, _)
Fill(k, t) == IF k = 0 THEN << >> ELSE Append(Fill(k - 1, t), t)

\* The state after account "A" made TierMax(x) - 1 admitted calls on tier x at
\* StartTime (x = "none": no call made yet).
InitTiers ==
    /\ InitClient
    /\ now = StartTime
    /\ ticks = 0
    /\ ops = 0
    /\ pc = [p \in Procs |-> "idle"]
    /\ call = [p \in Procs |-> NoCall]
    /\ last = NoLast
    /\ max_requests = [l \in Limiters |-> IF l = "rl" THEN 1 ELSE TierMax(l)]
    /\ time_window = [l \in Limiters |-> IF l = "rl" THEN 1 ELSE TierWindow(l)]
    /\ \E x \in Tiers \cup {"none"} :
        /\ buckets = [l \in Limiters |->
                        IF l = x THEN ("A" :> Fill(TierMax(x) - 1, StartTime)) ELSE << >>]
        /\ locks = [l \in Limiters |-> IF l = x THEN {"A"} ELSE {}]
        /\ admitted = [l \in Limiters |-> [id \in Ids |->
                        IF l = x /\ id = "A" THEN Fill(TierMax(x) - 1, StartTime) ELSE << >>]]
        /\ scen = [l \in Limiters |-> [id \in Ids |->
                        IF l = x /\ id = "A"
                        THEN [on |-> TRUE, t0 |-> StartTime, idx |-> TierMax(x) - 1,
                              chk |-> "within", res |-> TRUE, denied |-> FALSE]
                        ELSE NoScen]]

\* one allow_* method of AccountRateLimiter: `tier` is the method's tier,
\* `limiter` the limiter object it delegates to
TierAllow(tier, limiter, a) ==
    /\ ops < MaxOps
    /\ ops' = ops + 1
    /\ AllowRequest(limiter, a)
    /\ last' = [op |-> "allow", l |-> tier, id |-> a,
                res |-> Allow(buckets, limiter, a).ok, val |-> 0]
    /\ UNCHANGED <<pc, call, mgrvars, clvars>>

\* mutant: allow_message delegates to the response limiter
AllowMessageWrongTier(a) == TierAllow("message", "response", a)

AllowGeneralRequest(a) == TierAllow("general", "general", a)
AllowMessage(a) == TierAllow("message", "message", a)
AllowResponse(a) == TierAllow("response", "response", a)
AllowGigEdit(a) == TierAllow("gig_edit", "gig_edit", a)
AllowAuth(a) == TierAllow("auth", "auth", a)

\* mutant: reading the remaining budget records an event in every tier
GetRateLimitInfoConsumes(a) ==
    /\ ops < MaxOps
    /\ ops' = ops + 1
    /\ buckets' = [l \in Limiters |->
                     IF l \in Tiers
                     THEN Put(buckets[l], a,
                              Append(Evict(Get(buckets[l], a), now, time_window[l]), now))
                     ELSE buckets[l]]
    /\ locks' = [l \in Limiters |-> IF l \in Tiers THEN locks[l] \cup {a} ELSE locks[l]]
    /\ last' = [op |-> "info", l |-> "general", id |-> a, res |-> TRUE,
                val |-> Remaining(buckets, "general", a)]
    /\ UNCHANGED <<now, ticks, max_requests, time_window, pc, call, admitted, scen>>
    /\ UNCHANGED <<mgrvars, clvars>>

\* AccountRateLimiter.get_rate_limit_info: get_remaining_requests of the five tiers
GetRateLimitInfo(a) ==
    /\ ops < MaxOps
    /\ ops' = ops + 1
    /\ buckets' = [l \in Limiters |->
                     IF l \in Tiers
                     THEN Put(buckets[l], a, Evict(Get(buckets[l], a), now, time_window[l]))
                     ELSE buckets[l]]
    /\ locks' = [l \in Limiters |-> IF l \in Tiers THEN locks[l] \cup {a} ELSE locks[l]]
    /\ last' = [op |-> "info", l |-> "general", id |-> a, res |-> TRUE,
                val |-> Remaining(buckets, "general", a)]
    /\ UNCHANGED <<now, ticks, max_requests, time_window, pc, call, admitted, scen>>
    /\ UNCHANGED <<mgrvars, clvars>>

\* reset_bucket of one tier's limiter
TierReset(t, a) ==
    /\ ops < MaxOps
    /\ ops' = ops + 1
    /\ ResetBucket(t, a)
    /\ last' = [op |-> "reset", l |-> t, id |-> a, res |-> TRUE, val |-> 0]
    /\ UNCHANGED <<mgrvars, clvars>>

NextTiers ==
    \/ \E a \in Ids : AllowGeneralRequest(a)
    \/ \E a \in Ids : AllowMessage(a)
    \/ \E a \in Ids : AllowResponse(a)
    \/ \E a \in Ids : AllowGigEdit(a)
    \/ \E a \in Ids : AllowAuth(a)
    \/ \E a \in Ids : GetRateLimitInfo(a)
    \/ \E t \in Tiers, a \in Ids : TierReset(t, a)
    \/ \E d \in {TierWindow("general"), TierWindow("auth")} : Tick(d)

SpecTiers == InitTiers /\ [][NextTiers]_vars

(* ---- SpecClient: tasks run the operations of the accounts' KworkClients ---- *)
(* A client operation is a coroutine: it runs from one suspension to the     *)
(* next as one action.  It suspends in the pacing sleep of                   *)
(* _ensure_rate_limit, in the HTTP request, in its own delay before a form   *)
(* is posted and in the Playwright session.  A sleep ends once its shortest  *)
(* duration has passed.                                                      *)
MaxClientOps == 3

MIN_DELAY == 1
MAX_DELAY == 3
CookieTTLDays == 7
SessionCheckWait == 2

CookieTTL == CookieTTLDays * 86400
\* the sleeps of authenticate_with_browser on the login-form path
LoginWait == 3 + 2 + 1 + 1 + 5 + 2

TieredOps == {"send_message", "respond_to_order", "update_gig"}
PlaywrightOps == {"authenticate_with_playwright", "switch_account"}
\* the operations that make one request; the others fetch a form, wait and post it
OneRequestOps == {"update_gig", "get_orders"}

\* mutant: every tiered operation consults the gig_edit tier
TierOfGigEdit(op) == "gig_edit"

TierOf(op) ==
    CASE op = "send_message" -> "message"
      [] op = "respond_to_order" -> "response"
      [] op = "update_gig" -> "gig_edit"

\* the shortest delay an operation sleeps before it posts its form
FormDelay(op) ==
    CASE op = "send_message" -> 2
      [] op = "respond_to_order" -> 2
      [] op = "authenticate" -> 2

\* dict.update
Update(d, e) == [n \in DOMAIN d \cup DOMAIN e |-> IF n \in DOMAIN e THEN e[n] ELSE d[n]]

\* the cookies a browser session yields and the cookies a response sets
GatewayJar == "sid" :> "g"
ServerJar == "srv" :> "h"

\* the limiter state, threaded through the consultations of one step
Lim == [buckets |-> buckets, locks |-> locks, admitted |-> admitted, scen |-> scen]

\* mutant: allow_request admits without testing the limit
AfterUnlimited(st, l, id) ==
    LET q == Evict(Get(st.buckets[l], id), now, time_window[l]) IN
    [ok |-> TRUE,
     buckets |-> [st.buckets EXCEPT ![l] = Put(@, id, Append(q, now))],
     locks |-> [st.locks EXCEPT ![l] = @ \cup {id}],
     admitted |-> [st.admitted EXCEPT ![l][id] = Append(@, now)],
     scen |-> [st.scen EXCEPT ![l][id] = ScenAfterAllow(@, l, q, TRUE)]]

\* allow_request(id) of limiter l on the limiter state st
After(st, l, id) ==
    LET r == Allow(st.buckets, l, id) IN
    [ok |-> r.ok,
     buckets |-> r.buckets,
     locks |-> [st.locks EXCEPT ![l] = @ \cup {id}],
     admitted |-> IF r.ok THEN [st.admitted EXCEPT ![l][id] = Append(@, now)]
                  ELSE st.admitted,
     scen |-> [st.scen EXCEPT ![l][id] = ScenAfterAllow(@, l, r.seen, r.ok)]]

SetLimiters(st) ==
    /\ buckets' = st.buckets
    /\ locks' = st.locks
    /\ admitted' = st.admitted
    /\ scen' = st.scen

Consulted(tk, tier, ok) ==
    [tk EXCEPT !.consulted = Append(@, tier),
               !.advanced = IF ok THEN @ \cup {tier} ELSE @]

Finish(tk, res, reason) == [tk EXCEPT !.at = "done", !.res = res, !.reason = reason]

NewTask(op, a) ==
    [NoTask EXCEPT !.op = op, !.a = a, !.before = [t \in Tiers |-> Get(buckets[t], a)]]

\* the request of authenticate() that submits the login form
IsLoginPost(tk) == tk.op = "authenticate" /\ tk.k = 2

\* self.client.request(...) is awaited: the request is on the wire
SendRequest(p, tk) ==
    /\ task' = [task EXCEPT ![p] = [tk EXCEPT !.at = "http", !.sent = now,
                                              !.invoked = @ \/ IsLoginPost(tk)]]
    /\ last_request_time' = [last_request_time EXCEPT ![tk.a] = now]
    /\ logins' = IF IsLoginPost(tk) THEN [logins EXCEPT ![tk.a] = Append(@, now)]
                 ELSE logins

\* what the exception of _ensure_rate_limit becomes in the operation
GeneralDenied(tk) ==
    Finish(tk, IF tk.op = "update_gig" THEN "raise" ELSE "fail", "general")

\* mutant: a request the general tier denies still stamps last_request_time
BeginRequestStamped(p, tk, st) ==
    LET g == After(st, "general", tk.a)
        tk1 == Consulted(tk, "general", g.ok)
    IN  /\ SetLimiters(g)
        /\ IF ~g.ok
           THEN /\ task' = [task EXCEPT ![p] = GeneralDenied(tk1)]
                /\ last_request_time' = [last_request_time EXCEPT ![tk.a] = now]
                /\ UNCHANGED logins
           ELSE IF now - last_request_time[tk.a] < MIN_DELAY
           THEN /\ task' = [task EXCEPT ![p] = [tk1 EXCEPT !.at = "pace", !.since = now]]
                /\ UNCHANGED <<last_request_time, logins>>
           ELSE SendRequest(p, tk1)

\* _make_request up to its first suspension, on the limiter state st:
\* _ensure_rate_limit consults the general tier, then paces or sends
BeginRequest(p, tk, st) ==
    LET g == After(st, "general", tk.a)
        tk1 == Consulted(tk, "general", g.ok)
    IN  /\ SetLimiters(g)
        /\ IF ~g.ok
           THEN /\ task' = [task EXCEPT ![p] = GeneralDenied(tk1)]
                /\ UNCHANGED <<last_request_time, logins>>
           ELSE IF now - last_request_time[tk.a] < MIN_DELAY
           THEN /\ task' = [task EXCEPT ![p] = [tk1 EXCEPT !.at = "pace", !.since = now]]
                /\ UNCHANGED <<last_request_time, logins>>
           ELSE SendRequest(p, tk1)

\* the number of admissions of (t, a) in the half-open window (now - W, now]
AdmittedIn(t, a) == CountIn(admitted[t][a], now - time_window[t])

\* the cookie file of the account exists and has not expired
FileFresh(a) == cookie_file[a] # NoFile /\ ~(now > cookie_file[a])

\* the record of an operation called now, tk its task at its first suspension
\* or at its end: the verdict is "admitted" when the limiter let it go on to a
\* request or to the browser, else the reason it ended with
Entry(tk) ==
    [op |-> tk.op, a |-> tk.a, t |-> now, force |-> tk.force,
     verdict |-> IF tk.at = "done" THEN tk.reason ELSE "admitted",
     invoked |-> tk.invoked,
     authed |-> is_authenticated[tk.a], fresh |-> FileFresh(tk.a),
     inwin |-> [t \in Tiers |-> AdmittedIn(t, tk.a)]]

Free(p) == task[p].at \in {"idle", "done"}

\* an operation is called: task p runs it
StartOp(p) ==
    /\ ops < MaxClientOps
    /\ Free(p)
    /\ ops' = ops + 1
    /\ UNCHANGED <<now, ticks, max_requests, time_window, pc, call, last>>

\* forbidden_fields of update_gig
forbidden_fields ==
    {"price", "payment_settings", "commission", "withdrawal", "financial_settings",
     "payment_methods", "pricing"}

\* mutant: every field is passed on
FilteredUpdatesAll(updates) == updates

\* filtered_updates: the keys of updates that are not in forbidden_fields
FilteredUpdates(updates) == updates \ forbidden_fields

\* send_message, respond_to_order, update_gig up to the first suspension;
\* updates: the keys of the dict update_gig is called with
TieredOp(p, op, a, updates) ==
    LET tier == TierOf(op)
        s1 == After(Lim, tier, a)
        tk0 == Consulted(NewTask(op, a), tier, s1.ok)
        allowed == op # "update_gig" \/ FilteredUpdates(updates) # {}
        tk1 == IF s1.ok /\ op = "update_gig"
               THEN [tk0 EXCEPT !.updates = updates, !.payload = FilteredUpdates(updates)]
               ELSE tk0
    IN  /\ StartOp(p)
        /\ a \in clients
        /\ IF ~is_authenticated[a]
           THEN /\ task' = [task EXCEPT ![p] =
                              Finish(NewTask(op, a), "raise", "not_authenticated")]
                /\ UNCHANGED <<buckets, locks, admitted, scen, last_request_time, logins>>
           ELSE IF ~s1.ok \/ ~allowed
           THEN /\ task' = [task EXCEPT ![p] =
                              Finish(tk1, "raise", IF ~s1.ok THEN tier ELSE "no_fields")]
                /\ SetLimiters(s1)
                /\ UNCHANGED <<last_request_time, logins>>
           ELSE BeginRequest(p, [tk1 EXCEPT !.k = 1], s1)
        /\ oplog' = Append(oplog, Entry(task'[p]))
        /\ UNCHANGED <<mgrvars, is_authenticated, session_cookies, authenticated_at, cookie_file>>

SendMessage(p, a) == TieredOp(p, "send_message", a, {})
RespondToOrder(p, a) == TieredOp(p, "respond_to_order", a, {})
UpdateGig(p, a, updates) == TieredOp(p, "update_gig", a, updates)

\* get_orders up to the first suspension: a request under the general tier only
GetOrders(p, a) ==
    LET tk == [NewTask("get_orders", a) EXCEPT !.k = 1]
    IN  /\ StartOp(p)
        /\ a \in clients
        /\ IF ~is_authenticated[a]
           THEN /\ task' = [task EXCEPT ![p] = Finish(tk, "fail", "not_authenticated")]
                /\ UNCHANGED <<buckets, locks, admitted, scen, last_request_time, logins>>
           ELSE BeginRequest(p, tk, Lim)
        /\ oplog' = Append(oplog, Entry(task'[p]))
        /\ UNCHANGED <<mgrvars, is_authenticated, session_cookies, authenticated_at, cookie_file>>

\* KworkClient.authenticate up to the first suspension
Authenticate(p, a) ==
    LET s1 == After(Lim, "auth", a)
        tk1 == Consulted(NewTask("authenticate", a), "auth", s1.ok)
    IN  /\ StartOp(p)
        /\ a \in clients
        /\ IF ~s1.ok
           THEN /\ task' = [task EXCEPT ![p] = Finish(tk1, "fail", "auth")]
                /\ SetLimiters(s1)
                /\ UNCHANGED <<last_request_time, logins>>
           ELSE BeginRequest(p, [tk1 EXCEPT !.k = 1], s1)
        /\ oplog' = Append(oplog, Entry(task'[p]))
        /\ UNCHANGED <<mgrvars, is_authenticated, session_cookies, authenticated_at, cookie_file>>

\* mutant: a failed authentication is answered like a successful one
AuthFailedAnswersOk(tk, reason) == Finish(tk, "ok", reason)

\* what a failed authenticate_with_playwright becomes: False, or the 401 of
\* switch_account
AuthFailed(tk, reason) ==
    Finish(tk, IF tk.op = "switch_account" THEN "raise" ELSE "fail", reason)

\* authenticate_with_playwright up to the suspension in the browser, called
\* directly or by switch_account after get_client
PlaywrightOp(p, op, a, force) ==
    LET s1 == After(Lim, "auth", a)
        tk1 == [Consulted(NewTask(op, a), "auth", s1.ok) EXCEPT !.force = force]
    IN  /\ StartOp(p)
        /\ IF op = "switch_account" THEN clients' = clients \cup {a}
           ELSE a \in clients /\ clients' = clients
        /\ SetLimiters(s1)
        /\ IF ~s1.ok
           THEN /\ task' = [task EXCEPT ![p] = AuthFailed(tk1, "auth")]
                /\ UNCHANGED <<logins, cookie_file>>
           ELSE /\ task' = [task EXCEPT ![p] = [tk1 EXCEPT !.at = "browser",
                                                          !.since = now,
                                                          !.invoked = TRUE]]
                /\ logins' = [logins EXCEPT ![a] = Append(@, now)]
                /\ cookie_file' = [cookie_file EXCEPT ![a] = IF force THEN NoFile ELSE @]
        /\ oplog' = Append(oplog, Entry(task'[p]))
        /\ UNCHANGED <<active_account, is_active, is_authenticated, session_cookies,
                       authenticated_at, last_request_time>>

AuthenticateWithPlaywright(p, a, force) ==
    PlaywrightOp(p, "authenticate_with_playwright", a, force)
SwitchAccount(p, a) == PlaywrightOp(p, "switch_account", a, FALSE)

\* a task of the client goes on; the manager and the counters stay
Resume(p, at) ==
    /\ task[p].at = at
    /\ UNCHANGED <<now, ticks, max_requests, time_window, pc, call, last, ops, oplog>>

\* the pacing sleep of _ensure_rate_limit is over: the request is sent
PaceDone(p) ==
    /\ Resume(p, "pace")
    /\ now >= task[p].since + MIN_DELAY
    /\ SendRequest(p, task[p])
    /\ UNCHANGED <<buckets, locks, admitted, scen, mgrvars, is_authenticated,
                   session_cookies, authenticated_at, cookie_file>>

\* the operation's own delay is over: its next request starts
SleepDone(p) ==
    /\ Resume(p, "sleep")
    /\ now >= task[p].since + FormDelay(task[p].op)
    /\ BeginRequest(p, [task[p] EXCEPT !.k = @ + 1], Lim)
    /\ UNCHANGED <<mgrvars, is_authenticated, session_cookies, authenticated_at, cookie_file>>

\* where an operation goes once a response is there.  good: the response
\* lets the operation go on (status, form and indicators as it expects)
AfterResponse(tk, good) ==
    IF ~good
    THEN Finish(tk, IF tk.op = "update_gig" THEN "raise" ELSE "fail", "upstream")
    ELSE IF tk.k = 1 /\ tk.op \notin OneRequestOps
    THEN [tk EXCEPT !.at = "sleep", !.since = now]
    ELSE Finish(tk, "ok", "")

\* the response of a request arrives (or the request fails): _make_request
\* merges the response's cookies, the operation runs to its next suspension
Response(p) ==
    /\ Resume(p, "http")
    /\ \E good \in BOOLEAN, setc \in BOOLEAN :
        LET tk == task[p]
            tk1 == AfterResponse(tk, good)
        IN  /\ task' = [task EXCEPT ![p] = tk1]
            /\ session_cookies' =
                 [session_cookies EXCEPT ![tk.a] = IF setc THEN Update(@, ServerJar) ELSE @]
            /\ is_authenticated' =
                 [is_authenticated EXCEPT ![tk.a] =
                    @ \/ (tk.op = "authenticate" /\ tk1.res = "ok")]
            /\ authenticated_at' =
                 [authenticated_at EXCEPT ![tk.a] =
                    IF tk.op = "authenticate" /\ tk1.res = "ok" THEN now ELSE @]
    /\ UNCHANGED <<buckets, locks, admitted, scen, mgrvars, last_request_time,
                   cookie_file, logins>>

\* the response to the login form of authenticate() shows neither success nor
\* an error: the profile page is requested
ProfileCheck(p) ==
    /\ Resume(p, "http")
    /\ IsLoginPost(task[p])
    /\ BeginRequest(p, [task[p] EXCEPT !.k = 3], Lim)
    /\ UNCHANGED <<mgrvars, is_authenticated, session_cookies, authenticated_at, cookie_file>>

\* the Playwright session of authenticate_kwork_account ends.  how: "failed"
\* (browser or login failed), "session" (the saved cookies were loaded and the
\* profile page opened), "login" (the login form was submitted and the cookies
\* saved); jar: the cookies get_cookies_for_httpx returns
BrowserDone(p) ==
    /\ Resume(p, "browser")
    /\ \E how \in {"failed", "session", "login"}, jar \in {<< >>, GatewayJar} :
        LET tk == task[p]
            a == tk.a
            ok == how # "failed" /\ jar # << >>
        IN  /\ how = "failed" => jar = << >>
            /\ how = "session" => FileFresh(a) /\ now >= tk.since + SessionCheckWait
            /\ how = "login" => now >= tk.since + LoginWait
            /\ cookie_file' = [cookie_file EXCEPT ![a] =
                                 IF how = "login" THEN now + CookieTTL ELSE @]
            /\ session_cookies' = [session_cookies EXCEPT ![a] =
                                     IF ok THEN Update(@, jar) ELSE @]
            /\ is_authenticated' = [is_authenticated EXCEPT ![a] = @ \/ ok]
            /\ authenticated_at' = [authenticated_at EXCEPT ![a] = IF ok THEN now ELSE @]
            /\ task' = [task EXCEPT ![p] =
                          IF ok THEN Finish(tk, "ok", "")
                          ELSE AuthFailed(tk, IF how = "failed" THEN "login_failed"
                                              ELSE "no_cookies")]
            /\ active_account' = IF ok /\ tk.op = "switch_account" THEN a
                                 ELSE active_account
    /\ UNCHANGED <<buckets, locks, admitted, scen, clients, is_active, last_request_time,
                   logins>>

\* KworkClientManager.get_client for an account that has no client yet
GetClient(a) ==
    /\ a \notin clients
    /\ clients' = clients \cup {a}
    /\ UNCHANGED <<rlvars, active_account, is_active, clvars>>

\* The states SpecClient starts in, each one reached by the service from its
\* start (S = StartTime):
\*   "fresh"   nothing has run;
\*   "auth9"   nine authenticate_with_playwright calls for "A" were admitted
\*             in this second and their browser sessions failed at once;
\*   "authed"  switch_account("A") started at S - 20 - LoginWait, logged in
\*             through the form and ended at S - 20;
\*   "msg9"    "authed", then nine send_message calls were gathered at S - 20:
\*             all consulted both tiers then, posted their forms from S - 18
\*             and S - 17 on and had ended by S - 16;
\*   "gen59"   "authed", then 59 get_orders calls were gathered at S - 20 and
\*             had ended by S - 19.
Scenarios == {"fresh", "auth9", "authed", "msg9", "gen59"}

PastBucket(x, l) ==
    CASE x = "auth9" /\ l = "auth" -> Fill(TierMax("auth") - 1, StartTime)
      [] x \in {"authed", "msg9", "gen59"} /\ l = "auth" -> << StartTime - 20 - LoginWait >>
      [] x = "msg9" /\ l = "message" -> Fill(TierMax("message") - 1, StartTime - 20)
      [] x = "msg9" /\ l = "general" ->
            Fill(TierMax("message") - 1, StartTime - 20) \o << StartTime - 18 >>
                \o Fill(TierMax("message") - 2, StartTime - 17)
      [] x = "gen59" /\ l = "general" -> Fill(TierMax("general") - 1, StartTime - 20)
      [] OTHER -> << >>

PastScen(q, l) ==
    IF q = << >> THEN NoScen
    ELSE [on |-> TRUE, t0 |-> Head(q), idx |-> Min(Len(q), TierMax(l) + 2),
          chk |-> "within", res |-> TRUE, denied |-> FALSE]

\* the state of scenario x
InitScenario(x) ==
    LET authed == x \in {"authed", "msg9", "gen59"}
        past(l) == IF l = "rl" THEN << >> ELSE PastBucket(x, l)
    IN  /\ now = StartTime
        /\ ticks = 0
        /\ ops = 0
        /\ pc = [p \in Procs |-> "idle"]
        /\ call = [p \in Procs |-> NoCall]
        /\ last = NoLast
        /\ max_requests = [l \in Limiters |-> IF l = "rl" THEN 1 ELSE TierMax(l)]
        /\ time_window = [l \in Limiters |-> IF l = "rl" THEN 1 ELSE TierWindow(l)]
        /\ task = [p \in Procs |-> NoTask]
        /\ oplog = << >>
        /\ buckets = [l \in Limiters |->
                        IF past(l) = << >> THEN << >> ELSE "A" :> past(l)]
        /\ locks = [l \in Limiters |-> IF past(l) = << >> THEN {} ELSE {"A"}]
        /\ admitted = [l \in Limiters |-> [a \in Ids |->
                         IF a = "A" THEN past(l) ELSE << >>]]
        /\ scen = [l \in Limiters |-> [a \in Ids |->
                     IF a = "A" THEN PastScen(past(l), l) ELSE NoScen]]
        /\ clients = IF x = "fresh" THEN {} ELSE {"A"}
        /\ active_account = IF authed THEN "A" ELSE "none"
        /\ is_active = [a \in Ids |-> TRUE]
        /\ is_authenticated = [a \in Ids |-> a = "A" /\ authed]
        /\ session_cookies = [a \in Ids |->
                                IF a = "A" /\ authed THEN GatewayJar ELSE << >>]
        /\ cookie_file = [a \in Ids |->
                            IF a = "A" /\ authed THEN StartTime - 20 + CookieTTL
                            ELSE NoFile]
        /\ last_request_time = [a \in Ids |->
                                  IF a # "A" THEN 0
                                  ELSE CASE x = "msg9" -> StartTime - 16
                                         [] x = "gen59" -> StartTime - 19
                                         [] OTHER -> 0]
        /\ logins = [a \in Ids |-> IF a = "A" THEN past("auth") ELSE << >>]
        /\ authenticated_at = [a \in Ids |->
                                 IF a = "A" /\ authed THEN StartTime - 20 ELSE Never]

\* In SpecClient and SpecAuth the operations of account "A" are called one
\* after another, each by the task Runner once the operation before has ended.
Runner == "p1"
Served == {"A"}

\* SpecClient: the operations that send requests
InitSpecClient == \E x \in Scenarios : InitScenario(x)

NextClient ==
    \/ \E a \in Served : SendMessage(Runner, a)
    \/ \E a \in Served : RespondToOrder(Runner, a)
    \/ \E a \in Served, updates \in {{"title", "price"}, {"price"}} :
        UpdateGig(Runner, a, updates)
    \/ \E a \in Served : GetOrders(Runner, a)
    \/ PaceDone(Runner)
    \/ SleepDone(Runner)
    \/ Response(Runner)
    \/ \E a \in Served : GetClient(a)
    \/ \E d \in {MAX_DELAY, TierWindow("general")} : Tick(d)

SpecClient == InitSpecClient /\ [][NextClient]_vars

\* SpecAuth: the operations that authenticate an account
InitSpecAuth == \E x \in {"fresh", "auth9", "authed"} : InitScenario(x)

NextAuth ==
    \/ \E a \in Served : Authenticate(Runner, a)
    \/ \E a \in Served, force \in BOOLEAN : AuthenticateWithPlaywright(Runner, a, force)
    \/ \E a \in Served : SwitchAccount(Runner, a)
    \/ PaceDone(Runner)
    \/ SleepDone(Runner)
    \/ Response(Runner)
    \/ ProfileCheck(Runner)
    \/ BrowserDone(Runner)
    \/ \E a \in Served : GetClient(a)
    \/ \E d \in {MAX_DELAY, TierWindow("auth")} : Tick(d)

SpecAuth == InitSpecAuth /\ [][NextAuth]_vars

(* ---- SpecConc: two handlers use the client of account "A" concurrently ---- *)
(* Each handler is a task; a task that is suspended leaves the event loop to *)
(* the other.  switch_account authenticates, get_orders sends a request.     *)
InitSpecConc == \E x \in {"fresh", "authed"} : InitScenario(x)

NextConc ==
    \/ \E p \in Procs, a \in Served : SwitchAccount(p, a)
    \/ \E p \in Procs, a \in Served : GetOrders(p, a)
    \/ \E p \in Procs : PaceDone(p)
    \/ \E p \in Procs : Response(p)
    \/ \E p \in Procs : BrowserDone(p)
    \/ \E d \in {MIN_DELAY, LoginWait} : Tick(d)

SpecConc == InitSpecConc /\ [][NextConc]_vars

(* ---- SpecSession: the session of account "A" over requests and time ---- *)
(* The responses are told apart by what the server shows: "ok", a 200 page   *)
(* as the operation expects it; "login_page", the 200 login page, also as    *)
(* the end of a redirect to /login that the client followed                  *)
(* (follow_redirects=True); "unauthorized", a 401.                           *)
ResponseKinds == {"ok", "login_page", "unauthorized"}
LoginShown == {"login_page", "unauthorized"}

\* what authenticate() can find in the text of a page: an indicator of a
\* logged-in page, an error marker, or neither
Texts(kind) == IF kind = "login_page" THEN {"error", "neither"} ELSE {"indicator"}

\* response.status_code == 200
Is200(kind) == kind # "unauthorized"

\* what the operation does with a response: "ok" (returns success), "fail"
\* (returns failure), "sleep" (waits, then posts the form), "profile"
\* (requests the profile page)
Outcome(tk, kind, text) ==
    CASE tk.op = "get_orders" -> IF Is200(kind) THEN "ok" ELSE "fail"
      [] tk.op = "authenticate" /\ tk.k = 1 -> IF Is200(kind) THEN "sleep" ELSE "fail"
      [] tk.op = "authenticate" /\ tk.k = 2 ->
            IF ~Is200(kind) THEN "fail"
            ELSE IF text = "indicator" THEN "ok"
            ELSE IF text = "error" THEN "fail"
            ELSE "profile"
      [] tk.op = "authenticate" /\ tk.k = 3 -> IF Is200(kind) THEN "ok" ELSE "fail"

\* the response of a request arrives: _make_request merges its cookies, the
\* operation reads status and text and runs to its next suspension
ServerResponse(p) ==
    /\ Resume(p, "http")
    /\ \E kind \in ResponseKinds, setc \in BOOLEAN : \E text \in Texts(kind) :
        LET tk == [task[p] EXCEPT !.resp = kind]
            a == tk.a
            out == Outcome(tk, kind, text)
            authed == tk.op = "authenticate" /\ out = "ok"
        IN  /\ session_cookies' =
                 [session_cookies EXCEPT ![a] = IF setc THEN Update(@, ServerJar) ELSE @]
            /\ is_authenticated' = [is_authenticated EXCEPT ![a] = @ \/ authed]
            /\ authenticated_at' = [authenticated_at EXCEPT ![a] = IF authed THEN now ELSE @]
            /\ IF out = "profile"
               THEN BeginRequest(p, [tk EXCEPT !.k = 3], Lim)
               ELSE /\ task' = [task EXCEPT ![p] =
                                  CASE out = "ok" -> Finish(tk, "ok", "")
                                    [] out = "fail" -> Finish(tk, "fail", "upstream")
                                    [] out = "sleep" -> [tk EXCEPT !.at = "sleep",
                                                                   !.since = now]]
                    /\ UNCHANGED <<buckets, locks, admitted, scen, last_request_time,
                                   logins>>
    /\ UNCHANGED <<mgrvars, cookie_file>>

\* sync_contacts_to_crm up to the browser of get_account_info: the handler
\* wants the active client authenticated, get_account_info opens the cookie
\* file of the login and puts its cookies into a new browser context
GetAccountInfo(p, a) ==
    LET tk == NewTask("get_account_info", a)
    IN  /\ StartOp(p)
        /\ a \in clients
        /\ task' = [task EXCEPT ![p] =
                      IF active_account # a \/ ~is_authenticated[a]
                      THEN Finish(tk, "raise", "not_authenticated")
                      ELSE IF cookie_file[a] = NoFile
                      THEN Finish(tk, "raise", "no_file")
                      ELSE [tk EXCEPT !.at = "page"]]
        /\ oplog' = Append(oplog, Entry(task'[p]))
        /\ UNCHANGED <<buckets, locks, admitted, scen, mgrvars, is_authenticated,
                       session_cookies, authenticated_at, last_request_time,
                       cookie_file, logins>>

\* the profile page of get_account_info is loaded and parsed
PageDone(p) ==
    /\ Resume(p, "page")
    /\ task' = [task EXCEPT ![p] = Finish(task[p], "ok", "")]
    /\ UNCHANGED <<buckets, locks, admitted, scen, mgrvars, is_authenticated,
                   session_cookies, authenticated_at, last_request_time,
                   cookie_file, logins>>

InitSpecSession == \E x \in {"fresh", "authed"} : InitScenario(x)

NextSession ==
    \/ \E a \in Served : SwitchAccount(Runner, a)
    \/ \E a \in Served : Authenticate(Runner, a)
    \/ \E a \in Served : GetOrders(Runner, a)
    \/ \E a \in Served : GetAccountInfo(Runner, a)
    \/ PaceDone(Runner)
    \/ SleepDone(Runner)
    \/ ServerResponse(Runner)
    \/ BrowserDone(Runner)
    \/ PageDone(Runner)
    \/ \E a \in Served : GetClient(a)
    \/ \E d \in {MAX_DELAY, LoginWait, CookieTTL + 1} : Tick(d)

SpecSession == InitSpecSession /\ [][NextSession]_vars

(* ---- the API handlers above the client ---- *)
\* What the handler of an operation answers once the operation has ended.
\* send_message (POST /chat/{dialog_id}/send) answers 500 with the text of the
\* exception when the operation raised, and SuccessResponse("Message sent
\* successfully", data=result) for every dict the operation returned;
\* get_orders (GET /orders) reads result.get("orders", []) and answers a page
\* of them for every dict the operation returned.
ApiResponse(tk) ==
    IF tk.res = "raise"
    THEN [status |-> 500, success |-> FALSE, detail |-> tk.reason]
    ELSE [status |-> 200, success |-> TRUE, detail |-> ""]

(* ---- SpecApi: the HTTP middlewares of main.py ---- *)
(* A middleware registered later with @app.middleware("http") wraps the     *)
(* ones registered before it: rate_limit_middleware is the outermost, then  *)
(* block_forbidden_routes, then CORS and the routes.  A path is a sequence  *)
(* of pieces of its text; str.startswith is the prefix test on it.          *)
ApiMaxRequests == 60
ApiTimeWindow == 60

\* FORBIDDEN_ROUTES of app/core/forbidden_routes.py
FORBIDDEN_ROUTES ==
    {<<"/settings">>, <<"/payment">>, <<"/finance">>, <<"/balance">>, <<"/login-history">>}

\* the paths requested
Paths ==
    {<<"/settings">>, <<"/settings", "/profile">>, <<"/login-history">>,
     <<"/health">>, <<"/api/v1", "/accounts">>}

\* what a route (or the 404 of the router) answers
RouteStatuses == {200, 404}

StartsWith(path, prefix) ==
    Len(path) >= Len(prefix) /\ SubSeq(path, 1, Len(prefix)) = prefix

\* for forbidden_path in FORBIDDEN_ROUTES: if path.startswith(forbidden_path)
IsForbidden(path) == \E forbidden_path \in FORBIDDEN_ROUTES : StartsWith(path, forbidden_path)

\* mutant: the forbidden path is logged and let through
BlockForbiddenRoutesLogOnly(path, s) == [status |-> s, handler |-> TRUE]

\* block_forbidden_routes: 403, or the answer s of call_next
BlockForbiddenRoutes(path, s) ==
    IF IsForbidden(path)
    THEN [status |-> 403, handler |-> FALSE]
    ELSE [status |-> s, handler |-> TRUE]

\* no request answered yet.  ip: request.client.host; path: request.url.path;
\* status: the status code answered; handler: the request reached a route;
\* before: the admitted requests of the ip in the last ApiTimeWindow seconds
\* when the request arrived
NoAnswer == [op |-> "none", ip |-> "A", path |-> << >>, status |-> 0,
             handler |-> FALSE, before |-> 0]

\* rate_limit_middleware: one request of client ip for path, the route answering s
RateLimitMiddleware(ip, path, s) ==
    LET r == Allow(buckets, "rl", ip)
        inner == BlockForbiddenRoutes(path, s) IN
    /\ ops < MaxClientOps
    /\ ops' = ops + 1
    /\ AllowRequest("rl", ip)
    /\ last' = [op |-> "http", ip |-> ip, path |-> path,
                status |-> IF ~r.ok THEN 429 ELSE inner.status,
                handler |-> r.ok /\ inner.handler,
                before |-> CountIn(admitted["rl"][ip], now - time_window["rl"])]
    /\ UNCHANGED <<pc, call, mgrvars, clvars>>

\* The state after client "A" made k admitted requests at StartTime, for k = 0
\* and k = ApiMaxRequests - 1.
InitApi ==
    /\ InitClient
    /\ now = StartTime
    /\ ticks = 0
    /\ ops = 0
    /\ pc = [p \in Procs |-> "idle"]
    /\ call = [p \in Procs |-> NoCall]
    /\ last = NoAnswer
    /\ max_requests = [l \in Limiters |-> IF l = "rl" THEN ApiMaxRequests ELSE TierMax(l)]
    /\ time_window = [l \in Limiters |-> IF l = "rl" THEN ApiTimeWindow ELSE TierWindow(l)]
    /\ \E k \in {0, ApiMaxRequests - 1} :
        /\ buckets = [l \in Limiters |->
                        IF l = "rl" /\ k > 0 THEN ("A" :> Fill(k, StartTime)) ELSE << >>]
        /\ locks = [l \in Limiters |-> IF l = "rl" /\ k > 0 THEN {"A"} ELSE {}]
        /\ admitted = [l \in Limiters |-> [id \in Ids |->
                        IF l = "rl" /\ id = "A" THEN Fill(k, StartTime) ELSE << >>]]
        /\ scen = [l \in Limiters |-> [id \in Ids |->
                        IF l = "rl" /\ id = "A" /\ k > 0
                        THEN [on |-> TRUE, t0 |-> StartTime, idx |-> k,
                              chk |-> "within", res |-> TRUE, denied |-> FALSE]
                        ELSE NoScen]]

NextApi ==
    \/ \E ip \in Ids, path \in Paths, s \in RouteStatuses : RateLimitMiddleware(ip, path, s)
    \/ \E d \in {1, ApiTimeWindow} : Tick(d)

SpecApi == InitApi /\ [][NextApi]_vars


(* ---- SpecPool: the handlers that address the pool of KworkClientManager ---- *)
(* kwork_accounts.id is SERIAL: the row holds an int.  switch_account passes *)
(* account["id"] to get_client and set_active_account as it is; delete_       *)
(* account, get_rate_limits, test_connection and the parse routes pass        *)
(* str(account_id).  In a dict the int 7 and the string "7" are two keys.     *)
(* A client is named by the key it was created under, which is also its       *)
(* account_id, the identifier of its rate-limit buckets.  The handlers are    *)
(* called one at a time; the outcome of the browser session (cookies) and of  *)
(* the part of a handler after the authentication (tail), which touches       *)
(* neither the pool nor is_authenticated, are inputs.                         *)
AccountIds == {1, 2}

\* account["id"] of a row of kwork_accounts
IntKey(n) == <<"int", n>>
\* str(): the string of an int, and the string itself
Str(k) == <<"str", k[2]>>
\* None
NoKey == <<"none", 0>>
PoolKeys == {IntKey(n) : n \in AccountIds} \cup {Str(IntKey(n)) : n \in AccountIds}

\* the path parameter account_id: int of delete_account, get_rate_limits and
\* test_connection, and account["id"] of the parse routes, through str()
StrKey(n) == Str(IntKey(n))

\* the handlers that call get_client and authenticate_with_playwright, with
\* the key they pass to get_client
PoolOps == {"switch_account", "test_connection", "parse_chats", "parse_orders"}
KeyOf(op, n) == IF op = "switch_account" THEN IntKey(n) ELSE StrKey(n)

\* no handler has answered yet.  account: the row addressed; key: the key of
\* the client or of the buckets the handler used (NoKey: none); status: the
\* status code answered; authed: is_authenticated of the client obtained,
\* before the handler authenticated it; val: the remaining auth budget
\* reported
NoPoolAnswer == [op |-> "none", account |-> 0, key |-> NoKey, status |-> 0,
                 authed |-> FALSE, val |-> 0]

PoolStep ==
    /\ ops < MaxClientOps
    /\ ops' = ops + 1
    /\ UNCHANGED <<now, ticks, max_requests, time_window, pc, call, admitted, scen,
                   session_cookies, last_request_time, cookie_file, task, logins,
                   oplog, authenticated_at>>

\* switch_account, test_connection and the parse routes: the row is looked
\* up, get_client(key), authenticate_with_playwright on the client, then
\* set_active_account (switch_account) or the rest of the handler
PoolHandler(op, n, cookies, tail) ==
    LET key == KeyOf(op, n)
        r == Allow(buckets, "auth", key)
        was == key \in clients /\ is_authenticated[key]
        ok == r.ok /\ cookies
    IN  /\ PoolStep
        /\ IF ~is_active[n]
           THEN /\ last' = [NoPoolAnswer EXCEPT !.op = op, !.account = n, !.status = 404]
                /\ UNCHANGED <<clients, active_account, is_authenticated, buckets, locks>>
           ELSE /\ clients' = clients \cup {key}
                /\ buckets' = r.buckets
                /\ locks' = [locks EXCEPT !["auth"] = @ \cup {key}]
                /\ is_authenticated' = [is_authenticated EXCEPT ![key] = was \/ ok]
                /\ active_account' = IF op = "switch_account" /\ ok THEN key
                                     ELSE active_account
                /\ last' = [op |-> op, account |-> n, key |-> key,
                            status |-> IF ok THEN (IF op = "switch_account" \/ tail
                                                   THEN 200 ELSE 500)
                                       ELSE IF op = "test_connection" THEN 500 ELSE 401,
                            authed |-> was, val |-> 0]
        /\ UNCHANGED is_active

\* delete_account: the row is deactivated, the client under str(account_id)
\* is closed and deleted
DeleteAccount(n) ==
    /\ PoolStep
    /\ IF ~is_active[n]
       THEN /\ last' = [NoPoolAnswer EXCEPT !.op = "delete_account", !.account = n,
                                             !.status = 404]
            /\ UNCHANGED <<clients, is_active>>
       ELSE /\ is_active' = [is_active EXCEPT ![n] = FALSE]
            /\ clients' = clients \ {StrKey(n)}
            /\ last' = [NoPoolAnswer EXCEPT !.op = "delete_account", !.account = n,
                                             !.key = StrKey(n), !.status = 200]
    /\ UNCHANGED <<active_account, is_authenticated, buckets, locks>>

\* get_rate_limits: get_rate_limit_info(str(account_id))
GetRateLimits(n) ==
    LET key == StrKey(n) IN
    /\ PoolStep
    /\ IF ~is_active[n]
       THEN /\ last' = [NoPoolAnswer EXCEPT !.op = "get_rate_limits", !.account = n,
                                             !.status = 404]
            /\ UNCHANGED <<buckets, locks>>
       ELSE /\ buckets' = [l \in Limiters |->
                             IF l \in Tiers
                             THEN Put(buckets[l], key,
                                      Evict(Get(buckets[l], key), now, time_window[l]))
                             ELSE buckets[l]]
            /\ locks' = [l \in Limiters |->
                           IF l \in Tiers THEN locks[l] \cup {key} ELSE locks[l]]
            /\ last' = [NoPoolAnswer EXCEPT !.op = "get_rate_limits", !.account = n,
                                             !.key = key, !.status = 200,
                                             !.val = Remaining(buckets, "auth", key)]
    /\ UNCHANGED <<clients, active_account, is_active, is_authenticated>>

\* KworkClientManager.get_active_client, as the handlers of orders, gigs and
\* chat call it: self.clients.get(self.active_account) or None
GetActiveClient ==
    /\ PoolStep
    /\ last' = [NoPoolAnswer EXCEPT
                  !.op = "get_active_client",
                  !.key = IF active_account # NoKey /\ active_account \in clients
                          THEN active_account ELSE NoKey,
                  !.authed = active_account \in clients /\ is_authenticated[active_account]]
    /\ UNCHANGED <<clients, active_account, is_active, is_authenticated, buckets, locks>>

\* KworkClientManager.close_all_clients
CloseAllClients ==
    /\ PoolStep
    /\ clients' = {}
    /\ last' = [NoPoolAnswer EXCEPT !.op = "close_all_clients"]
    /\ UNCHANGED <<active_account, is_active, is_authenticated, buckets, locks>>

\* KworkClientManager.__init__, two active rows in kwork_accounts
InitPool ==
    /\ now = StartTime
    /\ ticks = 0
    /\ ops = 0
    /\ pc = [p \in Procs |-> "idle"]
    /\ call = [p \in Procs |-> NoCall]
    /\ last = NoPoolAnswer
    /\ InitLimiters(1, 1)
    /\ admitted = [l \in Limiters |-> [id \in Ids |-> << >>]]
    /\ scen = [l \in Limiters |-> [id \in Ids |-> NoScen]]
    /\ clients = {}
    /\ active_account = NoKey
    /\ is_active = [n \in AccountIds |-> TRUE]
    /\ is_authenticated = [k \in PoolKeys |-> FALSE]
    /\ session_cookies = [a \in Ids |-> << >>]
    /\ last_request_time = [a \in Ids |-> 0]
    /\ cookie_file = [a \in Ids |-> NoFile]
    /\ task = [p \in Procs |-> NoTask]
    /\ logins = [a \in Ids |-> << >>]
    /\ oplog = << >>
    /\ authenticated_at = [a \in Ids |-> Never]

NextPool ==
    \/ \E op \in PoolOps, n \in AccountIds, cookies \in BOOLEAN, tail \in BOOLEAN :
        PoolHandler(op, n, cookies, tail)
    \/ \E n \in AccountIds : DeleteAccount(n)
    \/ \E n \in AccountIds : GetRateLimits(n)
    \/ GetActiveClient
    \/ CloseAllClients

SpecPool == InitPool /\ [][NextPool]_vars


(* ---- SpecSwitch: concurrent switch_account requests for two accounts ---- *)
\* the status switch_account answers with once it has ended: HTTPException
\* 401 when authenticate_with_playwright returned False, else the message
SwitchAccountResponse(tk) == IF tk.res = "ok" THEN 200 ELSE 401

InitSpecSwitch == \E x \in {"fresh", "auth9", "authed"} : InitScenario(x)

NextSwitch ==
    \/ \E p \in Procs, a \in Ids : SwitchAccount(p, a)
    \/ \E p \in Procs : BrowserDone(p)
    \/ Tick(LoginWait)

SpecSwitch == InitSpecSwitch /\ [][NextSwitch]_vars


(* ---- SpecGig: update_gig called with every set of fields ---- *)
\* the keys an update is made of
GigFields == {"title", "tags", "price", "pricing"}

InitSpecGig == \E x \in {"authed", "gen59"} : InitScenario(x)

NextGig ==
    \/ \E a \in Served, updates \in SUBSET GigFields : UpdateGig(Runner, a, updates)
    \/ PaceDone(Runner)
    \/ Response(Runner)
    \/ \E d \in {MIN_DELAY, TierWindow("gig_edit")} : Tick(d)

SpecGig == InitSpecGig /\ [][NextGig]_vars


(* ---- SpecLive: concurrent callers of the limiter and of _ensure_rate_limit ---- *)
(* Two tasks call allow_request, get_remaining_requests, reset_bucket (of the *)
(* general limiter) and KworkClient._ensure_rate_limit while                  *)
(* cleanup_old_buckets runs in between.  A scheduled call runs as one step up *)
(* to its return or to the asyncio.sleep of the pacing; the sleep ends when   *)
(* its timer fires, which moves the clock to that time.  The event loop runs  *)
(* every scheduled call and fires every timer: weak fairness of LiveRun and   *)
(* LiveWake.  The histories admitted and scen are not kept here.              *)
LiveMethods == {"allow_request", "get_remaining_requests", "reset_bucket",
                "_ensure_rate_limit"}

\* the max_age values cleanup_old_buckets is run with
LiveMaxAges == {MIN_DELAY, DefaultMaxAge}

\* a task schedules a call of method m for identifier id
LiveCall(p, m, id) ==
    /\ ops < MaxOps
    /\ pc[p] \in {"idle", "done"}
    /\ ops' = ops + 1
    /\ pc' = [pc EXCEPT ![p] = "pending"]
    /\ call' = [call EXCEPT ![p] = [m |-> m, l |-> "general", id |-> id, slots |-> 0,
                                    stale |-> FALSE, res |-> FALSE, since |-> now,
                                    until |-> now, slept |-> FALSE]]
    /\ UNCHANGED <<now, ticks, max_requests, time_window, buckets, locks, admitted,
                   scen, last, mgrvars, clvars>>

\* mutant: the caller finds the lock of its identifier held and keeps waiting
LiveRunKeepsWaiting(p) ==
    /\ pc[p] = "pending"
    /\ call' = [call EXCEPT ![p].stale = TRUE]
    /\ UNCHANGED <<now, ticks, max_requests, time_window, buckets, locks, pc, admitted,
                   scen, last, ops, mgrvars, clvars>>

\* the event loop runs the scheduled call: the body of the RateLimiter method
\* under the lock of the identifier, or _ensure_rate_limit up to its sleep
\* (d: the value of random.uniform(MIN_DELAY, MAX_DELAY))
LiveRun(p) ==
    LET c == call[p]
        r == Allow(buckets, c.l, c.id)
        q == Evict(Get(buckets[c.l], c.id), now, time_window[c.l])
        paces == now - last_request_time[c.id] < MIN_DELAY
    IN  /\ pc[p] = "pending"
        /\ locks' = [locks EXCEPT ![c.l] = @ \cup {c.id}]
        /\ buckets' =
             CASE c.m \in {"allow_request", "_ensure_rate_limit"} -> r.buckets
               [] c.m = "get_remaining_requests" -> [buckets EXCEPT ![c.l] = Put(@, c.id, q)]
               [] c.m = "reset_bucket" -> [buckets EXCEPT ![c.l] = Put(@, c.id, << >>)]
        /\ IF c.m = "_ensure_rate_limit" /\ r.ok /\ paces
           THEN /\ \E d \in MIN_DELAY..MAX_DELAY :
                     call' = [call EXCEPT ![p].since = now, ![p].until = now + d,
                                          ![p].slept = TRUE, ![p].res = TRUE]
                /\ pc' = [pc EXCEPT ![p] = "sleeping"]
                /\ UNCHANGED last_request_time
           ELSE /\ call' = [call EXCEPT
                              ![p].res = IF c.m \in {"allow_request", "_ensure_rate_limit"}
                                         THEN r.ok ELSE TRUE,
                              ![p].slots = IF c.m = "get_remaining_requests"
                                           THEN Remaining(buckets, c.l, c.id) ELSE 0]
                /\ pc' = [pc EXCEPT ![p] = "done"]
                /\ last_request_time' =
                     IF c.m = "_ensure_rate_limit" /\ r.ok
                     THEN [last_request_time EXCEPT ![c.id] = now]
                     ELSE last_request_time
        /\ UNCHANGED <<now, ticks, max_requests, time_window, admitted, scen, last, ops,
                       mgrvars, is_authenticated, session_cookies, cookie_file, task,
                       logins, oplog, authenticated_at>>

\* the timer of the pacing sleep fires (timers fire in the order of their
\* times): _ensure_rate_limit stamps last_request_time and returns
LiveWake(p) ==
    /\ pc[p] = "sleeping"
    /\ \A o \in Procs : pc[o] = "sleeping" => call[o].until >= call[p].until
    /\ now' = Max(now, call[p].until)
    /\ last_request_time' = [last_request_time EXCEPT ![call[p].id] = now']
    /\ pc' = [pc EXCEPT ![p] = "done"]
    /\ UNCHANGED <<ticks, max_requests, time_window, buckets, locks, call, admitted,
                   scen, last, ops, mgrvars, is_authenticated, session_cookies,
                   cookie_file, task, logins, oplog, authenticated_at>>

\* a run of cleanup_old_buckets(max_age) on the general limiter
LiveCleanup(max_age) ==
    LET gone == ToRemove(buckets, "general", max_age) IN
    /\ buckets' = [buckets EXCEPT !["general"] = Drop(@, gone)]
    /\ locks' = [locks EXCEPT !["general"] = @ \ gone]
    /\ UNCHANGED <<now, ticks, max_requests, time_window, pc, call, admitted, scen,
                   last, ops, mgrvars, clvars>>

NextLive ==
    \/ \E p \in Procs, m \in LiveMethods, id \in Ids : LiveCall(p, m, id)
    \/ \E p \in Procs : LiveRun(p)
    \/ \E p \in Procs : LiveWake(p)
    \/ \E max_age \in LiveMaxAges : LiveCleanup(max_age)

SpecLive ==
    /\ InitTiers
    /\ [][NextLive]_vars
    /\ \A p \in Procs : WF_vars(LiveRun(p)) /\ WF_vars(LiveWake(p))


(* ---- SpecGC: cleanup_old_buckets among the other methods of a RateLimiter ---- *)
\* no method called yet.  op: the method called last; id: its identifier;
\* t: when it was called; max_age: the argument of cleanup_old_buckets;
\* touched: per identifier, when a method was last called for it (Never: no
\* method was); before: the buckets when the method was called
NoGC == [op |-> "none", id |-> "A", t |-> 0, max_age |-> 0,
         touched |-> [id \in Ids |-> Never], before |-> << >>]

GCStep(op, id) ==
    /\ ops < MaxOps
    /\ ops' = ops + 1
    /\ last' = [last EXCEPT !.op = op, !.id = id, !.t = now,
                            !.touched = [@ EXCEPT ![id] = now],
                            !.before = buckets["rl"]]
    /\ UNCHANGED <<mgrvars, clvars>>

GCAllow(id) == AllowRequest("rl", id) /\ GCStep("allow_request", id) /\ UNCHANGED <<pc, call>>
GCGetRemaining(id) == GetRemaining("rl", id) /\ GCStep("get_remaining_requests", id)
GCResetBucket(id) == ResetBucket("rl", id) /\ GCStep("reset_bucket", id)

\* cleanup_old_buckets(max_age)
GCCleanup(max_age) ==
    /\ CleanupOldBuckets("rl", max_age)
    /\ ops < MaxOps
    /\ ops' = ops + 1
    /\ last' = [last EXCEPT !.op = "cleanup_old_buckets", !.t = now,
                            !.max_age = max_age, !.before = buckets["rl"]]
    /\ UNCHANGED <<mgrvars, clvars>>

InitGC ==
    /\ InitClient
    /\ now = StartTime
    /\ ticks = 0
    /\ ops = 0
    /\ \E n \in 1..MaxRequests, w \in 1..MaxWindow : InitLimiters(n, w)
    /\ pc = [p \in Procs |-> "idle"]
    /\ call = [p \in Procs |-> NoCall]
    /\ admitted = [l \in Limiters |-> [id \in Ids |-> << >>]]
    /\ scen = [l \in Limiters |-> [id \in Ids |-> NoScen]]
    /\ last = NoGC

NextGC ==
    \/ \E id \in Ids : GCAllow(id)
    \/ \E id \in Ids : GCGetRemaining(id)
    \/ \E id \in Ids : GCResetBucket(id)
    \/ GCCleanup(DefaultMaxAge)
    \/ \E d \in {1, DefaultMaxAge} : Tick(d)

SpecGC == InitGC /\ [][NextGC]_vars


(* ------------------------------- claims ------------------------------ *)

\* C1: for RateLimiter(N, W) and any identifier, in a run of allow_request
\* calls that starts on an empty bucket, the calls made less than W seconds
\* after the first return true up to the N-th and false from the (N+1)-th on,
\* and the first call made W seconds or more after the first returns true.
C1_TokenBucketExactness ==
    \A id \in Ids :
        LET s == scen["rl"][id] IN
        /\ s.chk = "within" => (s.res <=> s.idx <= max_requests["rl"])
        /\ s.chk = "after" => s.res

\* a run in which the (N+1)-th call was denied and the call made once W
\* seconds had elapsed was admitted again
C1_Witness ==
    \E id \in Ids :
        scen["rl"][id].chk = "after" /\ scen["rl"][id].res /\ scen["rl"][id].denied

\* C2 (as claimed): the number of requests admitted with a timestamp in the
\* closed trailing window [now - W, now] is at most max_requests.
C2_ClosedWindow ==
    \A id \in Ids : Len(admitted["rl"][id]) <= max_requests["rl"]

\* C2 (amended): the number of requests admitted with a timestamp in the
\* half-open trailing window (now - W, now] is at most max_requests, after any
\* sequence of allow_request, get_remaining_requests and
\* cleanup_old_buckets(3600) calls.
C2_HalfOpenWindow ==
    \A id \in Ids :
        CountIn(admitted["rl"][id], now - time_window["rl"]) <= max_requests["rl"]

\* the half-open window is full while the closed window holds one more
C2_Witness ==
    \E id \in Ids :
        /\ CountIn(admitted["rl"][id], now - time_window["rl"]) = max_requests["rl"]
        /\ Len(admitted["rl"][id]) > max_requests["rl"]

\* C3: two tasks whose allow_request("A") calls were both scheduled while one
\* slot remained, and both ran before the clock moved or the bucket was reset,
\* are never both admitted; the bucket never holds more than max_requests.
C3_Serialized ==
    /\ Len(Get(buckets["rl"], "A")) <= max_requests["rl"]
    /\ \A p, q \in Procs :
        (/\ p # q
         /\ pc[p] = "done" /\ pc[q] = "done"
         /\ ~call[p].stale /\ ~call[q].stale
         /\ call[p].slots = 1 /\ call[q].slots = 1)
        => ~(call[p].res /\ call[q].res)

\* both tasks were scheduled with one slot left: one was admitted, one denied
C3_Witness ==
    \E p, q \in Procs :
        /\ p # q
        /\ pc[p] = "done" /\ pc[q] = "done"
        /\ ~call[p].stale /\ ~call[q].stale
        /\ call[p].slots = 1 /\ call[q].slots = 1
        /\ call[p].res /\ ~call[q].res

\* the number of events of (t, a) that an eviction at `now` would keep
InWindow(t, a) == CountIn(Get(buckets[t], a), now - time_window[t])

\* what the AccountRateLimiter holds and answers for account b: per tier, the
\* bucket, the result of allow_* and the result of get_remaining_requests
AccountView(b) ==
    [t \in Tiers |-> [has |-> b \in DOMAIN buckets[t],
                      bucket |-> Get(buckets[t], b),
                      allow |-> InWindow(t, b) < max_requests[t],
                      remaining |-> Max(0, max_requests[t] - InWindow(t, b))]]

\* C4: an allow_*, get_rate_limit_info or reset_bucket call for one account
\* changes, for every other account and every tier, neither the bucket nor
\* the result an allow_* or get_remaining_requests call would give.
C4_AccountIsolation ==
    [][ops' # ops =>
        \A b \in Ids \ {last'.id} : AccountView(b)' = AccountView(b)]_vars

\* the message tier of "A" is exhausted and allow_message("B") has just returned true
C4_Witness ==
    /\ InWindow("message", "A") = TierMax("message")
    /\ last = [op |-> "allow", l |-> "message", id |-> "B", res |-> TRUE, val |-> 0]

\* C5: an allow_* call of one tier changes the buckets of no other tier, and
\* it returns true exactly when its own tier has budget left for the account,
\* whatever the state of the other tiers.
C5_TierIndependence ==
    [][(ops' # ops /\ last'.op = "allow") =>
        /\ \A t \in Tiers \ {last'.l} : buckets'[t] = buckets[t]
        /\ last'.res <=> InWindow(last'.l, last'.id) < TierMax(last'.l)]_vars

\* the response tier of "A" is exhausted and allow_message("A") has just returned true
C5_Witness ==
    /\ InWindow("response", "A") = TierMax("response")
    /\ last = [op |-> "allow", l |-> "message", id |-> "A", res |-> TRUE, val |-> 0]

\* the records of the operations op called for an authenticated account
Called(op) == {i \in DOMAIN oplog : oplog[i].op = op /\ oplog[i].authed}

\* C6: with general = (60, 60 s) and message = (10, 60 s), a send_message of an
\* authenticated account is admitted by the limiter while fewer than ten
\* messages were admitted in the window and general budget remains, the
\* send_message called once ten were admitted is rejected with the reason that
\* names the message tier, and a respond_to_order is admitted whatever the
\* message tier holds, while response and general budget remain.
C6_EndToEnd ==
    /\ TierMax("general") = 60 /\ TierWindow("general") = 60
    /\ TierMax("message") = 10 /\ TierWindow("message") = 60
    /\ \A i \in Called("send_message") :
        LET e == oplog[i] IN
        /\ (e.inwin["message"] < 10 /\ e.inwin["general"] < 60) => e.verdict = "admitted"
        /\ e.inwin["message"] >= 10 => e.verdict = "message"
    /\ \A i \in Called("respond_to_order") :
        LET e == oplog[i] IN
        (e.inwin["response"] < TierMax("response") /\ e.inwin["general"] < 60)
            => e.verdict = "admitted"

\* the tenth message of the window was admitted, the eleventh rejected by the
\* message tier and the respond_to_order called right after it admitted
C6_Witness ==
    /\ Len(oplog) = 3
    /\ oplog[1].op = "send_message" /\ oplog[1].inwin["message"] = 9
    /\ oplog[1].verdict = "admitted"
    /\ oplog[2].op = "send_message" /\ oplog[2].inwin["message"] = 10
    /\ oplog[2].verdict = "message"
    /\ oplog[3].op = "respond_to_order" /\ oplog[3].verdict = "admitted"
    /\ oplog[3].t = oplog[2].t /\ oplog[2].t < oplog[1].t + TierWindow("message")
    /\ task[Runner].op = "respond_to_order" /\ "response" \in task[Runner].advanced

\* the tiers an operation consulted
ConsultedSet(tk) == {tk.consulted[i] : i \in DOMAIN tk.consulted}

\* C7: a tiered operation consults the general tier first and its own tier
\* second, and never calls its own tier's allow when the general tier rejects.
C7_GeneralFirst ==
    \A p \in Procs :
        LET tk == task[p] IN
        (tk.op \in TieredOps /\ tk.consulted # << >>) =>
            /\ tk.consulted[1] = "general"
            /\ tk.reason = "general" => TierOf(tk.op) \notin ConsultedSet(tk)

\* C8: when a tiered operation is rejected by one of its tier checks, every
\* bucket of the account but the one that rejected holds the events it held
\* when the operation was called.
C8_RejectionMutatesNothing ==
    \A p \in Procs :
        LET tk == task[p] IN
        (tk.op \in TieredOps /\ tk.at = "done" /\ tk.reason \in Tiers) =>
            \A t \in Tiers \ {tk.reason} : Get(buckets[t], tk.a) = tk.before[t]

\* a login is invoked only by a call that the auth tier admitted
LoginAfterAdmission == \A p \in Procs : task[p].invoked => "auth" \in task[p].advanced

\* a call that the auth tier denies ends in failure, invokes no login and
\* leaves is_authenticated and session_cookies as they are
DenialChangesNothing ==
    \A p \in Procs :
        (task'[p] # task[p] /\ task'[p].reason = "auth") =>
            /\ task'[p].at = "done" /\ task'[p].res \in {"fail", "raise"}
            /\ ~task'[p].invoked
            /\ logins' = logins
            /\ is_authenticated' = is_authenticated
            /\ session_cookies' = session_cookies

\* C9 as stated: the login is invoked only after allow_auth returned true for
\* the attempt, a denied attempt fails without invoking the login and without
\* changing is_authenticated or session_cookies, and no window of 3600 seconds
\* holds more than 10 login invocations of an account.
C9_LoginWindow ==
    /\ [](LoginAfterAdmission /\ \A a \in Ids : Len(logins[a]) <= TierMax("auth"))
    /\ [][DenialChangesNothing]_vars

\* C9, amended: as above, with the bound on the admissions of the auth tier
\* in the half-open window (now - 3600, now] instead.
C9_AuthGate ==
    /\ [](LoginAfterAdmission /\ \A a \in Ids : AdmittedIn("auth", a) <= TierMax("auth"))
    /\ [][DenialChangesNothing]_vars

\* the tenth attempt of the hour was admitted and invoked the login, the
\* eleventh was denied
C9_Witness ==
    /\ Len(oplog) >= 2
    /\ oplog[1].inwin["auth"] = TierMax("auth") - 1
    /\ oplog[1].verdict = "admitted" /\ oplog[1].invoked
    /\ oplog[2].inwin["auth"] = TierMax("auth") /\ oplog[2].verdict = "auth"
    /\ task[Runner].reason = "auth" /\ ~task[Runner].invoked

\* C10: of two authenticate_with_playwright calls without force_new_auth, made
\* one after the other for an account that is authenticated and whose cookie
\* file has not expired, at most one invokes authenticate_kwork_account and
\* the second consumes no auth budget.
C10_AuthCacheHit ==
    \A i \in DOMAIN oplog :
        LET e == oplog[i] IN
        (/\ i > 1
         /\ e.op \in PlaywrightOps /\ ~e.force /\ e.authed /\ e.fresh
         /\ oplog[i - 1].op \in PlaywrightOps /\ ~oplog[i - 1].force
         /\ oplog[i - 1].a = e.a /\ oplog[i - 1].authed /\ oplog[i - 1].fresh) =>
            /\ ~(oplog[i - 1].invoked /\ e.invoked)
            /\ e.verdict # "admitted"

\* C12: the cookie jar of a client is non-empty if and only if the client is
\* authenticated, whatever authenticate, authenticate_with_playwright and
\* _make_request calls were made.
C12_CookiesIffAuthenticated ==
    \A a \in Ids : (session_cookies[a] # << >>) <=> is_authenticated[a]

\* the operations that authenticate an account
AuthOps == PlaywrightOps \cup {"authenticate"}

\* the ends of an authentication attempt that the limiter admitted and that
\* failed: the browser login failed, the gateway returned no cookies, a
\* request of authenticate() failed or was answered with a refusal
AttemptFailed(tk) ==
    /\ tk.op \in AuthOps /\ tk.at = "done" /\ tk.res \in {"fail", "raise"}
    /\ tk.reason \in {"login_failed", "no_cookies", "upstream"}

\* C13: after an authentication attempt failed the account is not
\* authenticated (is_authenticated, the flag every gated operation tests, is
\* false), also when the account was authenticated before the attempt.
C13_FailureClearsAuth ==
    \A p \in Procs : AttemptFailed(task[p]) => ~is_authenticated[task[p].a]

\* C14: a response that shows the login page (a 401, or the 200 login page a
\* redirect to /login ends on) never leaves or puts the session in the
\* authenticated state: after such a response to get_orders the client is not
\* authenticated, and an authenticate() whose last response was such a
\* response does not return success.
C14_LoginPageExpires ==
    \A p \in Procs :
        LET tk == task[p] IN
        (tk.at = "done" /\ tk.resp \in LoginShown) =>
            /\ tk.op = "get_orders" => ~is_authenticated[tk.a]
            /\ tk.op = "authenticate" => tk.res # "ok"

\* C15: no request of a gated operation is sent with the cookies of a session
\* that was authenticated more than the TTL (7 days) before: a session that
\* old is authenticated anew first.
C15_ExpiryReauthenticates ==
    \A p \in Procs :
        LET tk == task[p] IN
        (tk.op = "get_orders" /\ tk.at = "http") =>
            tk.sent - authenticated_at[tk.a] <= CookieTTL

\* C16: no reader of the cookie file uses a cookie set whose expires_at is in
\* the past: a get_account_info that goes on to the browser with the cookies
\* of the file read a file that had not expired.
C16_StoreHonoursTTL ==
    \A i \in DOMAIN oplog :
        (oplog[i].op = "get_account_info" /\ oplog[i].verdict = "admitted")
            => oplog[i].fresh

\* C17: after a successful authenticate_with_playwright the cookie jar is
\* exactly the cookie set the gateway returned: no cookie held before survives.
C17_JarReplaced ==
    \A p \in Procs :
        (task[p].op \in PlaywrightOps /\ task[p].at = "done" /\ task[p].res = "ok")
            => session_cookies[task[p].a] = GatewayJar

\* the tasks that have an authentication of account a in flight
Authenticating(a) == {p \in Procs : task[p].at = "browser" /\ task[p].a = a}

\* C11: at most one authentication attempt per account is in flight at any
\* time: handlers that request the authentication of one account concurrently
\* share one login invocation.
C11_AuthCollapse == \A a \in Ids : Cardinality(Authenticating(a)) <= 1

\* the tasks of account a that have put a request on the wire
Senders(a) == {p \in Procs : task[p].a = a /\ task[p].sent # Never}

\* C18: any two instants at which requests of one client set
\* last_request_time are at least MIN_DELAY apart, under any interleaving of
\* concurrent callers.
C18_MinimumPacing ==
    \A a \in Ids : \A p, q \in Senders(a) :
        p # q => (task[p].sent - task[q].sent >= MIN_DELAY
                  \/ task[q].sent - task[p].sent >= MIN_DELAY)

\* a step in which the general tier denies a request of task p
GeneralDenies(p) == task'[p] # task[p] /\ task'[p].reason = "general"

\* C19: when the general tier denies a request, the operation gets the error
\* at once: the call ends in that step with a failure, it was not and is not
\* put into the pacing wait, last_request_time keeps its value and no request
\* goes on the wire.
C19_DenialBeforePacing ==
    [][\A p \in Procs : GeneralDenies(p) =>
          /\ task'[p].at = "done" /\ task'[p].res \in {"fail", "raise"}
          /\ task[p].at # "pace"
          /\ last_request_time' = last_request_time
          /\ task'[p].sent \in {Never, task[p].sent}]_vars

\* the sixty-first request of the minute was denied by the general tier while
\* the request before it had been sent
C19_Witness ==
    /\ task[Runner].reason = "general" /\ task[Runner].at = "done"
    /\ task[Runner].sent = Never
    /\ AdmittedIn("general", "A") = TierMax("general")
    /\ Len(oplog) >= 2 /\ oplog[Len(oplog) - 1].verdict = "admitted"
    /\ last_request_time["A"] = oplog[Len(oplog) - 1].t

\* C20: an operation that a rate limiter denied is answered by its handler
\* with a failure that carries the rate-limit reason, never with a success.
C20_RejectionSurfaced ==
    \A p \in Procs :
        LET tk == task[p] IN
        (tk.op \in {"send_message", "get_orders"} /\ tk.at = "done"
            /\ tk.reason \in Tiers) =>
            /\ ~ApiResponse(tk).success
            /\ ApiResponse(tk).detail = tk.reason

\* C21 (as stated): every request whose path starts with a forbidden prefix is
\* answered 403 and reaches no route handler, whatever the client requested
\* before.
C21_ForbiddenIs403 ==
    (last.op = "http" /\ IsForbidden(last.path))
    => (last.status = 403 /\ ~last.handler)

\* C21 (amended): a request whose path starts with a forbidden prefix reaches
\* no route handler; it is answered 429 when the client's address already has
\* ApiMaxRequests admitted requests in the last ApiTimeWindow seconds, and 403
\* otherwise.
C21_ForbiddenBlocked ==
    (last.op = "http" /\ IsForbidden(last.path))
    => /\ ~last.handler
       /\ last.status = IF last.before >= ApiMaxRequests THEN 429 ELSE 403

\* a request below a forbidden prefix, made by a client over the limit
C21_Witness ==
    /\ last.op = "http"
    /\ last.path = <<"/settings", "/profile">>
    /\ last.status = 429

\* the admitted requests of account a on tier l that are inside the window
StillAdmitted(l, a) == CountIn(admitted[l][a], now - time_window[l])

\* no method of any tier's limiter has been called for account a
NeverSeen(a) == \A l \in Tiers : a \notin locks[l] /\ a \notin DOMAIN buckets[l]

\* C22: in every state, get_remaining_requests of a tier returns max_requests
\* minus the number of the account's admitted requests still inside the window,
\* a value within 0..max_requests, and allow_request is admitted exactly when
\* fewer than max_requests admitted requests are inside the window: neither
\* depends on how often get_remaining_requests or get_rate_limit_info was
\* called before.  For an account never seen every tier reports its full
\* capacity and the first allow of every tier returns true.
C22_RemainingReadsOnly ==
    \A l \in Tiers, a \in Ids :
        /\ Remaining(buckets, l, a) = max_requests[l] - StillAdmitted(l, a)
        /\ Remaining(buckets, l, a) \in 0..max_requests[l]
        /\ Allow(buckets, l, a).ok <=> (StillAdmitted(l, a) < max_requests[l])
        /\ NeverSeen(a) => (Remaining(buckets, l, a) = TierMax(l) /\ Allow(buckets, l, a).ok)

\* get_rate_limit_info was called when one general request was left: it
\* reported 1, and the next allow_general_request is still admitted
C22_Witness ==
    /\ last.op = "info" /\ last.id = "A" /\ last.val = 1
    /\ StillAdmitted("general", "A") = TierMax("general") - 1
    /\ Allow(buckets, "general", "A").ok
    /\ NeverSeen("B")

\* C23: every rejection by a tier's limiter carries a retryAfter value, the
\* oldest event of the rejecting bucket plus the window length minus the time
\* of the call, greater than 0 and at most the window length.  The value a
\* call carries back besides its boolean is last.val (0: it carries none).
C23_RetryAfter ==
    (last.op = "allow" /\ ~last.res)
    => /\ last.val > 0
       /\ last.val <= time_window[last.l]
       /\ Get(buckets[last.l], last.id) # << >>
       /\ last.val = Head(Get(buckets[last.l], last.id)) + time_window[last.l] - now

\* q is in non-decreasing order
Sorted(q) == \A i, j \in 1..Len(q) : i <= j => q[i] <= q[j]

\* C24: in every state the bucket of each identifier is in non-decreasing
\* order and no longer than max_requests, and what an eviction at `now` leaves
\* of it is exactly the sequence of the timestamps of the admitted
\* allow_request calls that are inside the window; allow_request returns a
\* boolean.  A denied call therefore records no event: the bucket has room
\* again as soon as its oldest admitted event leaves the window.
C24_BucketInvariant ==
    \A id \in Ids :
        LET q == Get(buckets["rl"], id) IN
        /\ Sorted(q)
        /\ Len(q) <= max_requests["rl"]
        /\ Evict(q, now, time_window["rl"])
               = EvictLe(admitted["rl"][id], now - time_window["rl"])
        /\ Allow(buckets, "rl", id).ok \in BOOLEAN

\* a call was denied on a full bucket that holds events of different times
C24_Witness ==
    \E id \in Ids :
        LET q == Get(buckets["rl"], id) IN
        /\ scen["rl"][id].on /\ scen["rl"][id].denied /\ ~scen["rl"][id].res
        /\ Len(q) = max_requests["rl"]
        /\ Len(q) >= 2 /\ q[1] < q[Len(q)]

\* the row of kwork_accounts a key addresses
AccountOf(k) == k[2]

\* C25: the pool holds at most one client per account, the handler that last
\* called get_client obtained the one client of its account, and the buckets
\* get_rate_limits reported are those of the account's client.
C25_OneClientPerAccount ==
    /\ \A k1, k2 \in clients : AccountOf(k1) = AccountOf(k2) => k1 = k2
    /\ (last.op \in PoolOps \cup {"get_rate_limits"} /\ last.status # 404)
       => \A k \in clients : AccountOf(k) = last.account => k = last.key

\* C26: get_active_client returns None or the client in the pool whose
\* account_id is active_account, and never the client of an account that
\* delete_account has removed (a removed row is never active again, so its
\* client is not created again) or that close_all_clients has closed.
C26_ActiveClientInPool ==
    (last.op = "get_active_client" /\ last.key # NoKey)
    => /\ last.key \in clients
       /\ last.key = active_account
       /\ is_active[AccountOf(last.key)]

\* task p ends a switch_account request in this step
SwitchEnds(p) ==
    /\ task'[p].op = "switch_account"
    /\ task'[p].at = "done"
    /\ task[p] # task'[p]

\* C27: the active account changes only in the step in which a switch_account
\* request for the new account ends after its own authenticate_with_playwright
\* succeeded; a switch_account request that ends in failure (the auth tier
\* denied it, the browser session failed or yielded no cookies) leaves the
\* active account as it was and is answered 401.
C27_SwitchOnlyAfterAuth ==
    [][/\ active_account' # active_account
          => \E p \in Procs :
                /\ SwitchEnds(p)
                /\ task'[p].res = "ok"
                /\ task'[p].a = active_account'
                /\ task'[p].invoked
                /\ "auth" \in task'[p].advanced
                /\ is_authenticated'[active_account']
       /\ \A p \in Procs :
            SwitchEnds(p)
            => IF task'[p].res = "ok"
               THEN /\ active_account' = task'[p].a
                    /\ SwitchAccountResponse(task'[p]) = 200
               ELSE /\ active_account' = active_account
                    /\ SwitchAccountResponse(task'[p]) = 401]_vars

\* account "A" is active and a later switch_account request for it was
\* denied by the auth tier
C27_Witness ==
    /\ active_account = "A"
    /\ \E p \in Procs :
        /\ task[p].op = "switch_account" /\ task[p].at = "done"
        /\ task[p].a = "A" /\ task[p].res = "raise" /\ task[p].reason = "auth"

\* C28: the body of every request update_gig has issued holds only keys of
\* its input that are not forbidden and holds at least one; when the input
\* has no key that may be edited the call raises and issues no request.
C28_NoForbiddenFieldSent ==
    \A p \in Procs :
        task[p].op = "update_gig"
        => /\ task[p].sent # Never
              => /\ task[p].payload # {}
                 /\ task[p].payload \subseteq task[p].updates
                 /\ task[p].payload \cap forbidden_fields = {}
           /\ task[p].updates \subseteq forbidden_fields
              => /\ task[p].at = "done" /\ task[p].res = "raise"
                 /\ task[p].sent = Never

\* update_gig was called with a forbidden and an allowed field and has sent
\* its request
C28_Witness ==
    \E p \in Procs :
        /\ task[p].op = "update_gig"
        /\ task[p].sent # Never
        /\ task[p].updates = {"title", "price", "pricing"}
        /\ task[p].payload = {"title"}

\* C29: every scheduled call of allow_request, get_remaining_requests,
\* reset_bucket and _ensure_rate_limit eventually returns or raises, whatever
\* the other task calls and whenever cleanup_old_buckets runs; a call that
\* sleeps for the pacing sleeps once, for at most MAX_DELAY, and then returns.
C29_EveryCallReturns ==
    /\ \A p \in Procs : (pc[p] \in {"pending", "sleeping"}) ~> (pc[p] = "done")
    /\ [](\A p \in Procs :
            pc[p] = "sleeping"
            => /\ call[p].until - call[p].since <= MAX_DELAY
               /\ now <= call[p].until)
    /\ [][\A p \in Procs : pc[p] = "sleeping" => pc'[p] \in {"sleeping", "done"}]_vars

\* a call of _ensure_rate_limit has slept until its timer fired and returned,
\* after the call of the other task returned without a sleep
C29_Witness ==
    \E p, o \in Procs :
        /\ pc[p] = "done" /\ call[p].m = "_ensure_rate_limit" /\ call[p].slept
        /\ now = call[p].until /\ last_request_time[call[p].id] = now
        /\ pc[o] = "done" /\ o # p /\ call[o].m = "_ensure_rate_limit" /\ ~call[o].slept

\* C30: when cleanup_old_buckets(max_age) has returned, every identifier for
\* which no method was called during the last max_age seconds has neither a
\* bucket nor a lock, and every identifier whose newest admitted request is
\* less than max_age old has the bucket it had before.
C30_IdleBucketsCollected ==
    last.op = "cleanup_old_buckets"
    => \A id \in Ids :
        /\ last.touched[id] < last.t - last.max_age
           => (id \notin DOMAIN buckets["rl"] /\ id \notin locks["rl"])
        /\ (/\ id \in DOMAIN last.before
            /\ last.before[id] # << >>
            /\ last.before[id][Len(last.before[id])] > last.t - last.max_age)
           => (id \in DOMAIN buckets["rl"] /\ buckets["rl"][id] = last.before[id])

====
